---- MODULE Spec2Model ----
(***************************************************************************)
(* display-error-chain: DisplayErrorChain, an fmt::Display adapter that    *)
(* writes an error followed by the chain of its sources (src/src/lib.rs).  *)
(*                                                                         *)
(* Text is a sequence of one-character strings, so that prefixes, lines    *)
(* and last characters of the output can be stated.  The errors are an     *)
(* arena of three values (the TopLevel / MidLevel / LowLevel of the module *)
(* doctest); what each displays and what its source() returns are drawn at *)
(* Init, cyclic source links included, since the Error trait does not      *)
(* forbid them.                                                            *)
(***************************************************************************)
EXTENDS Integers, Sequences, FiniteSets, TLC

\* Cap on the iterations of the `while let` loop of one fmt call (the code has
\* no such cap; only a cyclic chain reaches it).
MaxIters == 4

None == "None"

\* The error values (lib.rs:23-36).
Errs == {"TopLevel", "MidLevel", "LowLevel"}

\* What an error's own Display impl may write: nothing, a word, a message
\* that ends in a line break, a message that begins like a cause line.
Msgs ==
  { <<>>,
    <<"a">>,
    <<"b", "\n">>,
    <<" ", " ", "-", ">", " ", "c">> }

\* The literal pieces of the format strings.
CausedByLn == <<"\n", "C", "a", "u", "s", "e", "d", " ", "b", "y", ":", "\n">>
Ln == <<"\n">>
Arrow == <<" ", " ", "-", ">", " ">>

VARIABLES
  msg,            \* msg[e]: what e's Display::fmt writes
  src,            \* src[e]: what e.source() returns (an error or None)
  self0,          \* the reference DisplayErrorChain holds (self.0), None before new()
  pc,             \* position of the fmt call: "none", "ready", "L117" .. "L129", "done"
  out,            \* text the sink has accepted during the current fmt call
  result,         \* "running", "Ok" or "Err": what fmt returned
  cause_printed,  \* local of fmt
  source,         \* local of fmt
  cause,          \* the binding of `while let Some(cause)`
  queries,        \* number of source() calls made by the current fmt call
  rendered,       \* rendered[e]: number of times e's Display::fmt ran to completion
  wfail,          \* a write of the current fmt call has failed
  iters,          \* loop iterations entered by the current fmt call
  lastOk          \* the latest successful render: [has, err, text]

vars == << msg, src, self0, pc, out, result, cause_printed, source, cause,
           queries, rendered, wfail, iters, lastOk >>

chain == << msg, src >>
locals == << cause_printed, source, cause >>

----------------------------------------------------------------------------
\* The sink behind fmt::Formatter: a write of `piece` is accepted whole, or
\* fails after the sink has accepted some part of it (a failing Display impl
\* of a message behaves the same way).
SinkOutcomes(piece) ==
  { [ok |-> TRUE, acc |-> piece] }
    \cup { [ok |-> FALSE, acc |-> SubSeq(piece, 1, k)] : k \in 0..Len(piece) }

\* Variant of Try that drops the Err (`let _ = write!(..)`) and goes on.
TrySwallow(w, next) ==
  /\ pc' = next
  /\ result' = result

\* The `?` operator: on Ok go on to `next`, on Err return it from fmt.
Try(w, next) ==
  IF w.ok
    THEN /\ pc' = next
         /\ result' = result
    ELSE /\ pc' = "done"
         /\ result' = "Err"

\* One write!/writeln! call followed by `?`.
WriteThen(piece, next) ==
  \E w \in SinkOutcomes(piece) :
    /\ out' = out \o w.acc
    /\ wfail' = (wfail \/ ~w.ok)
    /\ Try(w, next)

----------------------------------------------------------------------------
Init ==
  /\ msg \in [Errs -> Msgs]
  /\ src \in [Errs -> Errs \cup {None}]
  /\ self0 = None
  /\ pc = "none"
  /\ out = <<>>
  /\ result = "running"
  /\ cause_printed = FALSE
  /\ source = None
  /\ cause = None
  /\ queries = 0
  /\ rendered = [e \in Errs |-> 0]
  /\ wfail = FALSE
  /\ iters = 0
  /\ lastOk = [has |-> FALSE, err |-> None, text |-> <<>>]

\* Variant of New that renders eagerly: it asks for the source and writes
\* the message at construction.
NewEager(error) ==
  /\ pc \in {"none", "ready", "done"}
  /\ self0' = error
  /\ pc' = "ready"
  /\ out' = out \o msg[error]
  /\ queries' = queries + 1
  /\ UNCHANGED << chain, result, locals, rendered, wfail, iters, lastOk >>

\* DisplayErrorChain::new: stores the reference.
New(error) ==
  /\ pc \in {"none", "ready", "done"}
  /\ self0' = error
  /\ pc' = "ready"
  /\ UNCHANGED << chain, out, result, locals, queries, rendered, wfail, iters, lastOk >>

\* A caller invokes fmt with a sink (to_string, format!, write!).
FmtCall ==
  /\ pc \in {"ready", "done"}
  /\ pc' = "L117"
  /\ out' = <<>>
  /\ result' = "running"
  /\ queries' = 0
  /\ rendered' = [e \in Errs |-> 0]
  /\ wfail' = FALSE
  /\ iters' = 0
  /\ lastOk' = IF pc = "done" /\ result = "Ok"
                 THEN [has |-> TRUE, err |-> self0, text |-> out]
                 ELSE lastOk
  /\ UNCHANGED << chain, self0, locals >>

\* write!(f, "{}", self.0)?;
WriteSelf ==
  /\ pc = "L117"
  /\ \E w \in SinkOutcomes(msg[self0]) :
       /\ out' = out \o w.acc
       /\ wfail' = (wfail \/ ~w.ok)
       /\ rendered' = IF w.ok THEN [rendered EXCEPT ![self0] = @ + 1] ELSE rendered
       /\ Try(w, "L119")
  /\ UNCHANGED << chain, self0, locals, queries, iters, lastOk >>

\* Variant of InitLocals in which cause_printed outlives the call (a field of
\* the formatter instead of a local).
InitLocalsStale ==
  /\ pc = "L119"
  /\ cause_printed' = cause_printed
  /\ source' = src[self0]
  /\ queries' = queries + 1
  /\ pc' = "L121"
  /\ UNCHANGED << chain, self0, out, result, cause, rendered, wfail, iters, lastOk >>

\* let mut cause_printed = false; let mut source = self.0.source();
InitLocals ==
  /\ pc = "L119"
  /\ cause_printed' = FALSE
  /\ source' = src[self0]
  /\ queries' = queries + 1
  /\ pc' = "L121"
  /\ UNCHANGED << chain, self0, out, result, cause, rendered, wfail, iters, lastOk >>

\* while let Some(cause) = source { if !cause_printed ... }
LoopEnter ==
  /\ pc = "L121"
  /\ source # None
  /\ iters < MaxIters
  /\ iters' = iters + 1
  /\ cause' = source
  /\ pc' = IF ~cause_printed THEN "L123" ELSE "L126"
  /\ UNCHANGED << chain, self0, out, result, cause_printed, source, queries,
                  rendered, wfail, lastOk >>

\* Variant of LoopExit with a visited check: the loop also ends at a cause
\* that was already rendered.
LoopExitVisited ==
  /\ pc = "L121"
  /\ \/ source = None
     \/ source # None /\ rendered[source] > 0
  /\ pc' = "done"
  /\ result' = "Ok"
  /\ UNCHANGED << chain, self0, out, locals, queries, rendered, wfail, iters, lastOk >>

\* Variant of LoopExit that ends the output with a line break.
LoopExitLn ==
  /\ pc = "L121"
  /\ source = None
  /\ pc' = "done"
  /\ result' = "Ok"
  /\ out' = out \o Ln
  /\ UNCHANGED << chain, self0, locals, queries, rendered, wfail, iters, lastOk >>

\* the loop ends; Ok(())
LoopExit ==
  /\ pc = "L121"
  /\ source = None
  /\ pc' = "done"
  /\ result' = "Ok"
  /\ UNCHANGED << chain, self0, out, locals, queries, rendered, wfail, iters, lastOk >>

\* Variant of WriteHeader that forgets `cause_printed = true`.
WriteHeaderNoFlag ==
  /\ pc = "L123"
  /\ cause_printed' = cause_printed
  /\ WriteThen(CausedByLn, "L128")
  /\ UNCHANGED << chain, self0, source, cause, queries, rendered, iters, lastOk >>

\* cause_printed = true; writeln!(f, "\nCaused by:")?;
WriteHeader ==
  /\ pc = "L123"
  /\ cause_printed' = TRUE
  /\ WriteThen(CausedByLn, "L128")
  /\ UNCHANGED << chain, self0, source, cause, queries, rendered, iters, lastOk >>

\* Variant of WriteLn that ignores a failed write (`let _ = writeln!(f)`).
WriteLnIgnore ==
  /\ pc = "L126"
  /\ \E w \in SinkOutcomes(Ln) :
       /\ out' = out \o w.acc
       /\ wfail' = (wfail \/ ~w.ok)
  /\ pc' = "L128"
  /\ result' = result
  /\ UNCHANGED << chain, self0, locals, queries, rendered, iters, lastOk >>

\* Variant of WriteLn that ends the previous line with a blank instead.
WriteLnBlank ==
  /\ pc = "L126"
  /\ WriteThen(<<" ">>, "L128")
  /\ UNCHANGED << chain, self0, locals, queries, rendered, iters, lastOk >>

\* writeln!(f)?
WriteLn ==
  /\ pc = "L126"
  /\ WriteThen(Ln, "L128")
  /\ UNCHANGED << chain, self0, locals, queries, rendered, iters, lastOk >>

\* write!(f, "  -> {}", cause)?;  -- the literal piece
WriteArrow ==
  /\ pc = "L128"
  /\ WriteThen(Arrow, "L128arg")
  /\ UNCHANGED << chain, self0, locals, queries, rendered, iters, lastOk >>

\* Variant of WriteCause that ends every cause line with a line break
\* (writeln! in place of write!).
WriteCauseLn ==
  /\ pc = "L128arg"
  /\ \E w \in SinkOutcomes(msg[cause] \o Ln) :
       /\ out' = out \o w.acc
       /\ wfail' = (wfail \/ ~w.ok)
       /\ rendered' = IF w.ok THEN [rendered EXCEPT ![cause] = @ + 1] ELSE rendered
       /\ Try(w, "L129")
  /\ UNCHANGED << chain, self0, locals, queries, iters, lastOk >>

\* write!(f, "  -> {}", cause)?;  -- the argument, cause's Display::fmt
WriteCause ==
  /\ pc = "L128arg"
  /\ \E w \in SinkOutcomes(msg[cause]) :
       /\ out' = out \o w.acc
       /\ wfail' = (wfail \/ ~w.ok)
       /\ rendered' = IF w.ok THEN [rendered EXCEPT ![cause] = @ + 1] ELSE rendered
       /\ Try(w, "L129")
  /\ UNCHANGED << chain, self0, locals, queries, iters, lastOk >>

\* Variant of Advance that asks the wrapped error again (self.0.source()).
AdvanceFromSelf ==
  /\ pc = "L129"
  /\ source' = src[self0]
  /\ queries' = queries + 1
  /\ pc' = "L121"
  /\ UNCHANGED << chain, self0, out, result, cause_printed, cause, rendered,
                  wfail, iters, lastOk >>

\* source = cause.source();
Advance ==
  /\ pc = "L129"
  /\ source' = src[cause]
  /\ queries' = queries + 1
  /\ pc' = "L121"
  /\ UNCHANGED << chain, self0, out, result, cause_printed, cause, rendered,
                  wfail, iters, lastOk >>

FmtStep ==
  \/ WriteSelf
  \/ InitLocals
  \/ LoopEnter
  \/ LoopExit
  \/ WriteHeader
  \/ WriteLn
  \/ WriteArrow
  \/ WriteCause
  \/ Advance

\* The caller wraps a reference to its top-level error, as the doctests do
\* (DisplayErrorChain::new(&TopLevel)); the arena is symmetric in its values.
Next ==
  \/ New("TopLevel")
  \/ FmtCall
  \/ FmtStep

Spec == Init /\ [][Next]_vars

\* fmt is synchronous straight-line code: once called it runs to its return.
FairSpec == Spec /\ WF_vars(FmtStep)

----------------------------------------------------------------------------
\* Vocabulary of the properties.

RECURSIVE CausesOf(_, _)
\* The first k causes of e: src[e], src[src[e]], ... (fewer when the chain ends).
CausesOf(e, k) ==
  IF k = 0 \/ src[e] = None
    THEN <<>>
    ELSE <<src[e]>> \o CausesOf(src[e], k - 1)

NumErrs == Cardinality(Errs)

\* The chain that starts at e closes on itself: it never reaches an error
\* whose source() is None.
Cyclic(e) == Len(CausesOf(e, NumErrs)) = NumErrs

\* The causes c1 .. cn of the wrapped error (acyclic chain).
Causes == CausesOf(self0, NumErrs)

Called == pc \notin {"none", "ready"}
Returned == pc = "done"
ReturnedOk == pc = "done" /\ result = "Ok"

CausedByText == <<"\n", "C", "a", "u", "s", "e", "d", " ", "b", "y", ":">>
LnArrowText == <<"\n", " ", " ", "-", ">", " ">>
CausedByLine == <<"C", "a", "u", "s", "e", "d", " ", "b", "y", ":">>

RECURSIVE CauseLines(_)
\* "\n  -> " ci for each cause of cs, in order.
CauseLines(cs) ==
  IF cs = <<>>
    THEN <<>>
    ELSE LnArrowText \o msg[Head(cs)] \o CauseLines(Tail(cs))

\* The text the format contract gives for error e with causes cs.
ChainText(e, cs) ==
  msg[e] \o (IF cs = <<>> THEN <<>> ELSE CausedByText \o CauseLines(cs))

IsPrefix(s, t) == Len(s) <= Len(t) /\ SubSeq(t, 1, Len(s)) = s
EndsWith(t, s) == Len(s) <= Len(t) /\ SubSeq(t, Len(t) - Len(s) + 1, Len(t)) = s
Contains(t, s) ==
  \E i \in 0..(Len(t) - Len(s)) : SubSeq(t, i + 1, i + Len(s)) = s
HasLn(t) == \E i \in 1..Len(t) : t[i] = "\n"

RECURSIVE SplitLines(_)
\* The lines of t: the pieces between its line breaks.
SplitLines(t) ==
  IF ~HasLn(t)
    THEN <<t>>
    ELSE LET i == CHOOSE i \in 1..Len(t) :
                    t[i] = "\n" /\ \A j \in 1..(i - 1) : t[j] # "\n"
         IN  <<SubSeq(t, 1, i - 1)>> \o SplitLines(SubSeq(t, i + 1, Len(t)))

ArrowLines(t) == SelectSeq(SplitLines(t), LAMBDA l : IsPrefix(Arrow, l))
HeaderLines(t) == SelectSeq(SplitLines(t), LAMBDA l : l = CausedByLine)

----------------------------------------------------------------------------
\* C1: a successful render of an error with causes c1 .. cn (n >= 1) writes
\* exactly the error's own message, then "\nCaused by:", then "\n  -> " and
\* ci's own message for i = 1 .. n in that order, and nothing else.
C1_ChainOutput ==
  (ReturnedOk /\ src[self0] # None) =>
    out = msg[self0] \o CausedByText \o CauseLines(Causes)

\* A render of a two-cause chain with three different messages has returned.
C1_Witness ==
  /\ ReturnedOk
  /\ Len(Causes) = 2
  /\ msg[self0] = <<"a">>
  /\ msg[Causes[1]] = <<"b", "\n">>
  /\ msg[Causes[2]] = <<>>

\* C2: a successful render of an error whose source() is None writes exactly
\* that error's own message and appends nothing.
C2_NoCauseOutput ==
  (ReturnedOk /\ src[self0] = None) => out = msg[self0]

\* A render of an error without cause and with a non-empty message has returned.
C2_Witness ==
  /\ ReturnedOk
  /\ src[self0] = None
  /\ msg[self0] = <<"a">>
  /\ out = <<"a">>

\* No message has a line break or the text "Caused by:", and the wrapped
\* error's message does not begin with the cause prefix.
PlainMessages ==
  /\ \A e \in {self0} \cup {Causes[i] : i \in 1..Len(Causes)} :
       ~HasLn(msg[e]) /\ ~Contains(msg[e], CausedByLine)
  /\ ~IsPrefix(Arrow, msg[self0])

\* The output has one "Caused by:" line and one "  -> " line per cause, the
\* i-th of them being the line of the i-th cause.
OneHeaderAndNArrowLines ==
  /\ Len(HeaderLines(out)) = 1
  /\ Len(ArrowLines(out)) = Len(Causes)
  /\ \A i \in 1..Len(Causes) :
       i <= Len(ArrowLines(out)) =>
         IsPrefix(Arrow \o Head(SplitLines(msg[Causes[i]])), ArrowLines(out)[i])

\* C3 as stated: for every error with n >= 1 causes the output has exactly one
\* "Caused by:" section and exactly n lines beginning with "  -> ", in chain order.
C3_Original ==
  (ReturnedOk /\ src[self0] # None) => OneHeaderAndNArrowLines

\* C3 amended: the same, for errors whose messages have no line break and no
\* "Caused by:" text and whose own message does not begin with "  -> "; the
\* i-th "  -> " line is then exactly "  -> " followed by ci's message.
C3_PlainMessages ==
  (ReturnedOk /\ src[self0] # None /\ PlainMessages) =>
    /\ OneHeaderAndNArrowLines
    /\ \A i \in 1..Len(Causes) : ArrowLines(out)[i] = Arrow \o msg[Causes[i]]

\* A render of a two-cause chain of plain, different messages has returned.
C3_Witness ==
  /\ ReturnedOk
  /\ PlainMessages
  /\ Len(Causes) = 2
  /\ msg[Causes[1]] = <<"a">>
  /\ msg[Causes[2]] = <<" ", " ", "-", ">", " ", "c">>

----------------------------------------------------------------------------
\* C4: a render in which a write failed returns Err, and only such a render
\* does: fmt never returns Ok, and never goes on, after a failed write.
C4_FailurePropagates ==
  /\ wfail <=> (result = "Err")
  /\ wfail => pc \in {"done", "ready"}

\* A write of a cause line failed after the header had been written, and fmt
\* has returned.
C4_Witness ==
  /\ Returned
  /\ wfail
  /\ result = "Err"
  /\ iters = 2
  /\ IsPrefix(msg[self0] \o CausedByText, out)

\* C5: two successful renders of the same error give the same output: the
\* second one starts with fresh cause_printed and source.
C5_SameOutputTwice ==
  (ReturnedOk /\ lastOk.has /\ lastOk.err = self0) => out = lastOk.text

\* A second render of an error with two causes has returned.
C5_Witness ==
  /\ ReturnedOk
  /\ lastOk.has
  /\ lastOk.err = self0
  /\ Len(Causes) = 2
  /\ msg[self0] = <<"a">>

\* The last thing a complete render writes: the wrapped error's message when
\* it has no cause, otherwise "  -> " and the root cause's message.
FinalPiece ==
  IF Causes = <<>>
    THEN msg[self0]
    ELSE Arrow \o msg[Causes[Len(Causes)]]

FinalMsg ==
  IF Causes = <<>> THEN msg[self0] ELSE msg[Causes[Len(Causes)]]

\* C6: for every chain length nothing follows the final message in the
\* output of a successful render: the output ends with the final piece, its
\* last character is the final message's last character (when that message
\* has one), and it ends in a line break only if the final message does.
C6_NothingAfterFinalMessage ==
  ReturnedOk =>
    /\ EndsWith(out, FinalPiece)
    /\ Causes = <<>> => Len(out) = Len(FinalPiece)
    /\ FinalMsg # <<>> => out[Len(out)] = FinalMsg[Len(FinalMsg)]
    /\ ~EndsWith(FinalMsg, Ln) => ~EndsWith(out, Ln)

\* A render of a two-cause chain whose root cause displays "a" has returned.
C6_Witness ==
  /\ ReturnedOk
  /\ Len(Causes) = 2
  /\ FinalMsg = <<"a">>
  /\ out[Len(out)] = "a"

\* The errors a complete render displays: the wrapped one and its causes.
InChain(e) == e = self0 \/ \E i \in 1..Len(Causes) : Causes[i] = e

\* C7, state part: on an acyclic chain of n causes a render makes at most
\* n + 1 source() calls and displays no error twice; when it returns Ok it
\* has made exactly n + 1 calls and displayed each error of the chain once.
C7_Counts ==
  (Called /\ ~Cyclic(self0)) =>
    /\ queries <= Len(Causes) + 1
    /\ \A e \in Errs : rendered[e] <= 1
    /\ ReturnedOk =>
         /\ queries = Len(Causes) + 1
         /\ \A e \in Errs : rendered[e] = (IF InChain(e) THEN 1 ELSE 0)

\* C7, step part: fmt returns at once when a source() call gave None.
C7_ReturnsAtNone ==
  (pc = "L121" /\ source = None) =>
    (pc' = "done" /\ result' = "Ok" /\ out' = out /\ queries' = queries)

\* C7: for every finite acyclic chain of n causes render terminates, with
\* exactly n + 1 source() calls and each message rendered once, returning as
\* soon as source() gives None.
C7_Terminates ==
  /\ [](C7_Counts)
  /\ [][C7_ReturnsAtNone]_vars
  /\ [](((pc = "L117") /\ ~Cyclic(self0)) => <>Returned)

\* A render of a two-cause chain has returned Ok after three source() calls.
C7_Witness ==
  /\ ReturnedOk
  /\ Len(Causes) = 2
  /\ queries = 3
  /\ rendered[Causes[2]] = 1

\* C8: on a cyclic chain fmt never returns Ok and every test of the loop
\* finds another cause: it writes "  -> " lines until a write fails.
C8_CycleNeverReturns ==
  (self0 # None /\ Cyclic(self0)) =>
    /\ result # "Ok"
    /\ pc = "L121" => source # None
    /\ (Called /\ ~wfail) => ~Returned

\* On a cyclic chain, with no failed write, fmt is at the loop test again
\* after more iterations than there are errors.
C8_Witness ==
  /\ self0 # None
  /\ Cyclic(self0)
  /\ ~wfail
  /\ pc = "L121"
  /\ iters = MaxIters
  /\ iters > NumErrs
  /\ Len(ArrowLines(out)) >= MaxIters

\* C9: no step changes an error's message or source link; new() only stores
\* the reference (no source() call, no write); a render leaves the stored
\* reference as it is.
C9_Step ==
  /\ msg' = msg
  /\ src' = src
  /\ pc' = "ready" =>
       (out' = out /\ queries' = queries /\ rendered' = rendered /\ result' = result)
  /\ (Called \/ pc' = "L117") => self0' = self0

C9_ReadOnly == [][C9_Step]_vars

\* A formatter was built and its render of a chain with a cause returned.
C9_Witness ==
  /\ ReturnedOk
  /\ self0 = "TopLevel"
  /\ src[self0] # None
  /\ queries >= 2

\* The output of a render of the wrapped error in which no write fails (as
\* far as the bounded loop goes).
FullText == ChainText(self0, CausesOf(self0, MaxIters))

\* C10, step part: after a failed write the same fmt call writes nothing and
\* asks for no source.
C10_StopsAtFailure ==
  (wfail /\ pc' # "L117") => (out' = out /\ queries' = queries /\ wfail')

\* C10: render stops at the first failed write, and what the sink has
\* accepted is at every point a prefix of the output of a successful render.
C10_PrefixOfFullOutput ==
  /\ [](self0 # None => IsPrefix(out, FullText))
  /\ [][C10_StopsAtFailure]_vars

\* fmt has returned Err after a write failed in the middle of the second
\* cause line.
C10_Witness ==
  /\ Returned
  /\ wfail
  /\ iters = 2
  /\ EndsWith(out, Arrow)
  /\ out # FullText

====
